---- MODULE Spec2Model ----
(***************************************************************************)
(* Model of MapDServer.cpp: the start-up sequence of main() (option        *)
(* parsing, cluster resolution, path checks, the instance lock, the HA     *)
(* checks, the signal handler, the two endpoint threads, the joins) and    *)
(* the warm-up replay of run_warmup_queries().                             *)
(*                                                                         *)
(* Text (file lines, tokens, names) is a sequence of one-character         *)
(* strings, so that length tests, exact comparison, prefix comparison and  *)
(* whitespace tokenisation are computed the way the code computes them.    *)
(***************************************************************************)
EXTENDS Integers, Sequences, FiniteSets, TLC

\* ------------------------------------------------------------------ bounds

\* Longest warm-up script (in lines) the warm-up specification draws.
MaxLines == 3

\* Most client connects the client specification lets the endpoints process.
MaxClientConnects == 1

\* Longest cluster file (in descriptors) the cluster specification draws.
MaxNodes == 3

\* ------------------------------------------------------------------- text

Str_USER == <<"U", "S", "E", "R">>
Str_Close == <<"}">>

Line_Empty == <<>>
Line_Close == <<"}">>
Line_UserA == <<"U", "S", "E", "R", " ", "a", " ", "m">>
Line_UserB == <<"U", "S", "E", "R", " ", "b", " ", "n">>
Line_Users == <<"U", "S", "E", "R", "S", " ", "c", " ", "o">>
Line_Bad == <<"B", "A", "D", " ", "x", " ", "y">>
Line_Q1 == <<"S", "E", "L", " ", "1", ";">>
Line_Q2 == <<"S", "E", "L", " ", "2", ";">>
Line_UserOnly == <<"U", "S", "E", "R">>
Line_Blank == <<" ">>

\* std::string::compare(pos, len, str) == 0: the substring of s that starts at
\* pos (0-based) and is at most len long equals str.
ComparePrefixEq(s, len, str) ==
  SubSeq(s, 1, IF Len(s) < len THEN Len(s) ELSE len) = str

\* std::string::compare(str) == 0: the whole string equals str.
CompareEq(s, str) == s = str

IsSpace(c) == c = " "

RECURSIVE SkipWs(_)
SkipWs(s) == IF s # <<>> /\ IsSpace(Head(s)) THEN SkipWs(Tail(s)) ELSE s

RECURSIVE TakeToken(_)
TakeToken(s) ==
  IF s = <<>> \/ IsSpace(Head(s)) THEN <<>> ELSE <<Head(s)>> \o TakeToken(Tail(s))

\* One `iss >> target` on a stream st = [buf, good]: a stream that is no longer
\* good, or that holds only whitespace, fails and leaves the target as it was;
\* otherwise the target is replaced by the next token, and reading up to the
\* end of the buffer sets eofbit (the stream is no longer good).
Extract(st, target) ==
  IF ~st.good
  THEN [st |-> st, val |-> target]
  ELSE LET s == SkipWs(st.buf)
       IN IF s = <<>>
          THEN [st |-> [buf |-> <<>>, good |-> FALSE], val |-> target]
          ELSE LET tok == TakeToken(s)
                   rest == SubSeq(s, Len(tok) + 1, Len(s))
               IN [st |-> [buf |-> rest, good |-> rest # <<>>], val |-> tok]

\* iss >> user_keyword >> user_name >> db_name, on the line db_info.
ParseHeader(db_info, user_keyword, user_name, db_name) ==
  LET s0 == [buf |-> db_info, good |-> TRUE]
      r1 == Extract(s0, user_keyword)
      r2 == Extract(r1.st, user_name)
      r3 == Extract(r2.st, db_name)
  IN [user_keyword |-> r1.val, user_name |-> r2.val, db_name |-> r3.val]

\* The test of line 180.
IsUserHeader(user_keyword) == ComparePrefixEq(user_keyword, 4, Str_USER)

\* A variant of IsBlockEnd that looks for the opening brace.
IsBlockEnd_OpenBrace(single_query) == CompareEq(single_query, <<"{">>)

\* The test of line 193.
IsBlockEnd(single_query) == CompareEq(single_query, Str_Close)

\* A variant of IsEmptyLine that takes no line for empty.
IsEmptyLine_Never(line) == FALSE

\* The tests of lines 175 and 190.
IsEmptyLine(line) == Len(line) = 0

\* ---------------------------------------------------------------- cluster

Role_Aggregator == "Aggregator"
Role_DbLeaf == "DbLeaf"
Role_String == "String"

\* What LeafHostInfo::parseClusterConfig returns for the cluster file of the
\* start-up specification (the cluster specification draws every file).
ClusterConfigs ==
  { <<[host |-> "h1", role |-> Role_DbLeaf],
      [host |-> "h2", role |-> Role_String],
      [host |-> "h1", role |-> Role_Aggregator]>> }

\* The descriptors the cluster specification builds cluster files from.
Descriptors ==
  [host : {"h1", "h2"}, role : {Role_Aggregator, Role_DbLeaf, Role_String}]

RECURSIVE CopyIf(_, _)
CopyIf(leaves, role) ==
  IF leaves = <<>> THEN <<>>
  ELSE IF Head(leaves).role = role
       THEN <<Head(leaves)>> \o CopyIf(Tail(leaves), role)
       ELSE CopyIf(Tail(leaves), role)

\* A variant of only_db_leaves that copies every descriptor.
only_db_leaves_All(all_leaves) == all_leaves

only_db_leaves(all_leaves) == CopyIf(all_leaves, Role_DbLeaf)

only_string_leaves(all_leaves) == CopyIf(all_leaves, Role_String)

\* db_leaves, string_leaves and g_cluster before line 365; all_nodes is the
\* local of line 368, empty outside its block.
NoTopology ==
  [all_nodes |-> <<>>, db_leaves |-> <<>>, string_leaves |-> <<>>,
   g_cluster |-> FALSE]

\* Lines 369-376, once the CHECK_NE of line 366 has passed and the cluster
\* file has been parsed into all_nodes.
ResolveCluster(cluster, string_servers, all_nodes) ==
  IF cluster \/ string_servers
  THEN [all_nodes |-> <<>>,
        db_leaves |-> IF cluster THEN only_db_leaves(all_nodes) ELSE <<>>,
        string_leaves |-> only_string_leaves(all_nodes),
        g_cluster |-> TRUE]
  ELSE NoTopology

\* ------------------------------------------------------------------ state

Procs == {1, 2}
NoProc == 0

Endpoints == {"buf", "http"}

SIGTERM == 15
SIGINT == 2

\* The reserved session id of MapDHandler::getInvalidSessionId(): the empty
\* text. A session id the engine hands out is the one-element text <<n>>.
InvalidSessionId == <<>>

\* The path of the warm-up script on disk, and a path that names no file.
ScriptPath == <<"w">>
MissingPath == <<"z">>

\* The four paths main() requires, in the order it tests them.
FsItems == <<"base_path", "system_db_file", "data_path", "db_file">>

VARIABLES
  lockOwner,       \* the process that holds the lockf lock on mapd_server_pid.lck
  fsMissing,       \* which of FsItems do not exist in the data directory
  script,          \* the lines of the warm-up script file
  clusterConf,     \* the descriptors of the cluster file
  pc,              \* where each process's main thread is
  exit,            \* how each process ended: [how, code, at]
  contended,       \* history: lockf was called while another process held the lock
  vm,              \* the cluster options: [cluster, string_servers]
  topo,            \* [db_leaves, string_leaves, g_cluster]
  db_query_file,   \* the warm-up script path
  mapd_parameters, \* which of the HA fields of mapd_parameters are set
  pid_fd,          \* the lock file descriptor: "none", "open", "closed"
  sigRegistered,   \* mapd_signal_handler is installed for SIGTERM
  handler,         \* the MapDHandler: [constructed, super_user_rights_, sessions, nextSession]
  warmup_handler,  \* the global warmup_handler points at the handler
  threads,         \* bufThread and httpThread: "notStarted", "serving", "failed", "returned"
  loc,             \* the locals of run_warmup_queries
  events           \* history: the engine calls, file operations and warnings of warm-up

vars ==
  <<lockOwner, fsMissing, script, clusterConf, pc, exit, contended, vm, topo,
    db_query_file, mapd_parameters, pid_fd, sigRegistered, handler, warmup_handler,
    threads, loc, events>>

envVars == <<fsMissing, script, clusterConf>>
optVars == <<vm, topo, db_query_file, mapd_parameters>>
warmVars == <<handler, warmup_handler, loc, events>>
exitVars == <<pc, exit, lockOwner, pid_fd>>

\* mapd_parameters with no HA field set.
NoHAParameters ==
  [ha_group_id |-> FALSE, ha_unique_server_id |-> FALSE, ha_brokers |-> FALSE,
   ha_shared_data |-> FALSE]

\* The cluster flags of the variables map before line 355: none is stored.
NoOptions == [cluster |-> FALSE, string_servers |-> FALSE]

Running == [how |-> "running", code |-> 0, at |-> ""]

alive(p) == exit[p].how = "running"

\* The handler as its constructor leaves it.
NewHandler ==
  [constructed |-> TRUE, super_user_rights_ |-> FALSE, sessions |-> {},
   nextSession |-> 1]

NoHandler ==
  [constructed |-> FALSE, super_user_rights_ |-> FALSE, sessions |-> {},
   nextSession |-> 1]

\* The locals of run_warmup_queries before line 165.
NoLocals ==
  [sessionId |-> InvalidSessionId, file |-> "unopened", filePos |-> 1,
   user_keyword |-> <<>>, user_name |-> <<>>, db_name |-> <<>>,
   unwinding |-> FALSE]

\* Scripts that together take every branch of the replay loop.
StartupScripts ==
  { <<Line_Bad, Line_UserA, Line_Q1, Line_Close>>,
    <<Line_Empty, Line_UserA, Line_Empty, Line_Q1>> }

WarmupLines ==
  {Line_Empty, Line_Close, Line_UserA, Line_UserB, Line_Users, Line_Bad,
   Line_Q1, Line_Q2, Line_UserOnly, Line_Blank}

RECURSIVE SeqsUpTo(_, _)
SeqsUpTo(S, n) ==
  IF n = 0 THEN {<<>>}
  ELSE LET shorter == SeqsUpTo(S, n - 1)
       IN shorter \cup {Append(s, x) : s \in shorter, x \in S}

BoundedScripts == SeqsUpTo(WarmupLines, MaxLines)

\* The sets of missing paths a file system can show: the three others are
\* under base_path, and are missing when it is.
AllFsSubsets ==
  {missing \in SUBSET {FsItems[i] : i \in 1..Len(FsItems)} :
     "base_path" \in missing => missing = {FsItems[i] : i \in 1..Len(FsItems)}}

\* Every process is about to enter main().
Init ==
  /\ lockOwner = NoProc
  /\ fsMissing \in AllFsSubsets
  /\ script \in StartupScripts
  /\ clusterConf \in ClusterConfigs
  /\ pc = [p \in Procs |-> "main_354"]
  /\ exit = [p \in Procs |-> Running]
  /\ contended = [p \in Procs |-> FALSE]
  /\ vm = [p \in Procs |-> NoOptions]
  /\ topo = [p \in Procs |-> NoTopology]
  /\ db_query_file = [p \in Procs |-> <<>>]
  /\ mapd_parameters = [p \in Procs |-> NoHAParameters]
  /\ pid_fd = [p \in Procs |-> "none"]
  /\ sigRegistered = [p \in Procs |-> FALSE]
  /\ handler = [p \in Procs |-> NoHandler]
  /\ warmup_handler = [p \in Procs |-> FALSE]
  /\ threads = [p \in Procs |-> [t \in Endpoints |-> "notStarted"]]
  /\ loc = [p \in Procs |-> NoLocals]
  /\ events = [p \in Procs |-> <<>>]

\* ------------------------------------------------------------ process end

\* The process ends: the kernel closes its descriptors, which releases the
\* lock, and the process's memory (its options, handler, threads, locals) is
\* gone.
ProcessEnds(p, how, code, at) ==
  /\ pc' = [pc EXCEPT ![p] = "exited"]
  /\ exit' = [exit EXCEPT ![p] = [how |-> how, code |-> code, at |-> at]]
  /\ lockOwner' = IF lockOwner = p THEN NoProc ELSE lockOwner
  /\ pid_fd' = [pid_fd EXCEPT ![p] = IF @ = "open" THEN "closed" ELSE @]
  /\ vm' = [vm EXCEPT ![p] = NoOptions]
  /\ topo' = [topo EXCEPT ![p] = NoTopology]
  /\ db_query_file' = [db_query_file EXCEPT ![p] = <<>>]
  /\ mapd_parameters' = [mapd_parameters EXCEPT ![p] = NoHAParameters]
  /\ sigRegistered' = [sigRegistered EXCEPT ![p] = FALSE]
  /\ handler' = [handler EXCEPT ![p] = NoHandler]
  /\ warmup_handler' = [warmup_handler EXCEPT ![p] = FALSE]
  /\ threads' = [threads EXCEPT ![p] = [t \in Endpoints |-> "notStarted"]]
  /\ loc' = [loc EXCEPT ![p] = NoLocals]
  /\ events' = [events EXCEPT ![p] = <<>>]
  /\ UNCHANGED envVars

Goto(p, label) ==
  /\ pc' = [pc EXCEPT ![p] = label]
  /\ UNCHANGED <<exit, lockOwner, pid_fd, envVars>>

\* ------------------------------------------------------------------- main

\* Lines 354-364: the command line and the configuration file are stored in
\* vm; a malformed command line raises program_options::error, which the
\* catch of line 411 turns into return 1.
main_ParseOptions(p) ==
  /\ pc[p] = "main_354"
  /\ UNCHANGED contended
  /\ \E usage_error \in BOOLEAN, cluster \in BOOLEAN,
        string_servers \in BOOLEAN :
       IF usage_error
       THEN ProcessEnds(p, "return", 1, "usage")
       ELSE /\ vm' = [vm EXCEPT ![p] =
                        [cluster |-> cluster, string_servers |-> string_servers]]
            /\ Goto(p, "main_365")
            /\ UNCHANGED <<topo, db_query_file, mapd_parameters, sigRegistered,
                           threads, warmVars>>

\* A variant of ClusterCheckFails: a check that never fails.
ClusterCheckFails_Never(cluster, string_servers) == FALSE

\* The CHECK_NE of line 366 fails (and aborts) when it is evaluated with both
\* flags equal; it is evaluated only when at least one flag is set.
ClusterCheckFails(cluster, string_servers) ==
  (cluster \/ string_servers) /\ (cluster = string_servers)

\* Lines 365-366: with neither flag the block is skipped; with a flag the
\* CHECK_NE is evaluated before anything else of the block.
main_ClusterCheck(p) ==
  /\ pc[p] = "main_365"
  /\ UNCHANGED contended
  /\ IF ~(vm[p].cluster \/ vm[p].string_servers)
     THEN /\ Goto(p, "main_378")
          /\ UNCHANGED <<optVars, sigRegistered, threads, warmVars>>
     ELSE IF ClusterCheckFails(vm[p].cluster, vm[p].string_servers)
     THEN ProcessEnds(p, "abort", 0, "CHECK_NE")
     ELSE /\ Goto(p, "main_368")
          /\ UNCHANGED <<optVars, sigRegistered, threads, warmVars>>

\* Lines 367-368: all_nodes = LeafHostInfo::parseClusterConfig(cluster_file).
main_ParseCluster(p) ==
  /\ pc[p] = "main_368"
  /\ topo' = [topo EXCEPT ![p].all_nodes = clusterConf]
  /\ Goto(p, "main_369")
  /\ UNCHANGED <<vm, db_query_file, mapd_parameters, contended, sigRegistered,
                 threads, warmVars>>

\* A variant of main_Partition that leaves the topology unresolved.
main_Partition_Skipped(p) ==
  /\ pc[p] = "main_369"
  /\ Goto(p, "main_378")
  /\ UNCHANGED <<optVars, contended, sigRegistered, threads, warmVars>>

\* Lines 369-376: the partition of all_nodes and g_cluster = true.
main_Partition(p) ==
  /\ pc[p] = "main_369"
  /\ topo' = [topo EXCEPT ![p] =
                ResolveCluster(vm[p].cluster, vm[p].string_servers,
                               topo[p].all_nodes)]
  /\ Goto(p, "main_378")
  /\ UNCHANGED <<vm, db_query_file, mapd_parameters, contended, sigRegistered,
                 threads, warmVars>>

\* Lines 378-414: --help, --help-advanced and --version print and return 0;
\* otherwise the device options are settled and main goes on.
main_HelpVersion(p) ==
  /\ pc[p] = "main_378"
  /\ UNCHANGED contended
  /\ \E input \in {"help", "help-advanced", "version", "run"} :
       IF input # "run"
       THEN ProcessEnds(p, "return", 0, input)
       ELSE /\ Goto(p, "main_416")
            /\ UNCHANGED <<optVars, sigRegistered, threads, warmVars>>

\* A variant of FirstMissing that reports the last missing path.
FirstMissing_Last(missing, i) ==
  IF \A k \in 1..Len(FsItems) : FsItems[k] \notin missing THEN 0
  ELSE CHOOSE k \in 1..Len(FsItems) :
         /\ FsItems[k] \in missing
         /\ \A j \in (k + 1)..Len(FsItems) : FsItems[j] \notin missing

\* The first of the four required paths that does not exist, in the order of
\* the tests of lines 427, 432, 437 and 442; 0 when all exist.
RECURSIVE FirstMissing(_, _)
FirstMissing(missing, i) ==
  IF i > Len(FsItems) THEN 0
  ELSE IF FsItems[i] \in missing THEN i ELSE FirstMissing(missing, i + 1)

\* Lines 416-445: the warm-up script and the conversion source must exist when
\* they are named, then the four paths of the data directory.
main_CheckPaths(p) ==
  /\ pc[p] = "main_416"
  /\ UNCHANGED contended
  /\ \E query \in {<<>>, ScriptPath, MissingPath}, convertMissing \in BOOLEAN :
       IF Len(query) > 0 /\ query # ScriptPath
       THEN ProcessEnds(p, "return", 1, "db_query_file")
       ELSE IF convertMissing
       THEN ProcessEnds(p, "return", 1, "db_convert_dir")
       ELSE IF FirstMissing(fsMissing, 1) # 0
       THEN ProcessEnds(p, "return", 1, FsItems[FirstMissing(fsMissing, 1)])
       ELSE /\ db_query_file' = [db_query_file EXCEPT ![p] = query]
            /\ Goto(p, "main_447")
            /\ UNCHANGED <<vm, topo, mapd_parameters, sigRegistered, threads, warmVars>>

\* Lines 447-453: open (or create) the lock file.
main_OpenLockFile(p) ==
  /\ pc[p] = "main_447"
  /\ UNCHANGED contended
  /\ \E opened \in BOOLEAN :
       IF opened
       THEN /\ pc' = [pc EXCEPT ![p] = "main_454"]
            /\ pid_fd' = [pid_fd EXCEPT ![p] = "open"]
            /\ UNCHANGED <<exit, lockOwner, envVars, optVars, sigRegistered,
                           threads, warmVars>>
       ELSE ProcessEnds(p, "return", 1, "open")

\* A variant of lockf_TLOCK that never reports the lock as taken.
lockf_Unchecked(p) == 0

\* lockf(pid_fd, F_TLOCK, 0): -1 when another process holds the lock.
lockf_TLOCK(p) == IF lockOwner \notin {NoProc, p} THEN -1 ELSE 0

\* A variant of OnLockBusy that reports the busy lock and goes on.
OnLockBusy_FallsThrough(p) ==
  /\ pc' = [pc EXCEPT ![p] = "main_460"]
  /\ UNCHANGED <<exit, lockOwner, pid_fd, envVars, optVars, sigRegistered,
                 threads, warmVars>>

\* Lines 455-458: the lock is taken by another server: close and return 1.
OnLockBusy(p) == ProcessEnds(p, "return", 1, "lockf")

\* Lines 454-459.
main_Lockf(p) ==
  /\ pc[p] = "main_454"
  /\ contended' = [contended EXCEPT ![p] = lockOwner \notin {NoProc, p}]
  /\ IF lockf_TLOCK(p) = -1
     THEN OnLockBusy(p)
     ELSE /\ lockOwner' = p
          /\ pc' = [pc EXCEPT ![p] = "main_460"]
          /\ UNCHANGED <<exit, pid_fd, envVars, optVars, sigRegistered, threads,
                         warmVars>>

\* Lines 460-469: truncate the lock file and write the pid; either may fail,
\* and then the descriptor is closed (which gives the lock up) and main returns 1.
main_WritePid(p) ==
  /\ pc[p] = "main_460"
  /\ UNCHANGED contended
  /\ \E failed \in {"none", "ftruncate", "write"} :
       IF failed = "none"
       THEN /\ Goto(p, "main_472")
            /\ UNCHANGED <<optVars, sigRegistered, threads, warmVars>>
       ELSE ProcessEnds(p, "return", 1, failed)

\* A variant of HAExitCode that tests the brokers before the server id.
HAExitCode_BrokersFirst(group, server_id, brokers, shared_data) ==
  IF ~group THEN 0
  ELSE IF ~brokers THEN 6
  ELSE IF ~server_id THEN 5
  ELSE IF ~shared_data THEN 7
  ELSE 0

\* The return code of lines 489-509 for the HA parameters that are set; 0 when
\* main goes on.
HAExitCode(group, server_id, brokers, shared_data) ==
  IF ~group THEN 0
  ELSE IF ~server_id THEN 5
  ELSE IF ~brokers THEN 6
  ELSE IF ~shared_data THEN 7
  ELSE 0

\* The HA parameters a run may have: the three others are read only when the
\* group id is set.
HAParameters ==
  {m \in [ha_group_id : BOOLEAN, ha_unique_server_id : BOOLEAN,
           ha_brokers : BOOLEAN, ha_shared_data : BOOLEAN] :
     m.ha_group_id \/ m = NoHAParameters}

\* Lines 472-488: the log directory and glog are set up, and the options are
\* logged; the HA parameters are as the configuration left them.
main_InitLogging(p) ==
  /\ pc[p] = "main_472"
  /\ \E m \in HAParameters : mapd_parameters' = [mapd_parameters EXCEPT ![p] = m]
  /\ Goto(p, "main_489")
  /\ UNCHANGED <<vm, topo, db_query_file, contended, sigRegistered, threads,
                 warmVars>>

\* Lines 489-512: with an HA group id, the first of server id, brokers and
\* shared data that is not set ends main with 5, 6 or 7.
main_CheckHA(p) ==
  /\ pc[p] = "main_489"
  /\ UNCHANGED contended
  /\ LET m == mapd_parameters[p]
         code == HAExitCode(m.ha_group_id, m.ha_unique_server_id, m.ha_brokers,
                            m.ha_shared_data)
     IN IF code # 0
        THEN ProcessEnds(p, "return", code, "ha")
        ELSE /\ Goto(p, "main_516")
             /\ UNCHANGED <<optVars, sigRegistered, threads, warmVars>>

\* Lines 131-137 and 516: signal(SIGTERM, mapd_signal_handler).
register_signal_handler(p) ==
  /\ pc[p] = "main_516"
  /\ sigRegistered' = [sigRegistered EXCEPT ![p] = TRUE]
  /\ Goto(p, "main_518")
  /\ UNCHANGED <<optVars, contended, threads, warmVars>>

\* Lines 518-538: the handler is constructed.
main_ConstructHandler(p) ==
  /\ pc[p] = "main_518"
  /\ handler' = [handler EXCEPT ![p] = NewHandler]
  /\ Goto(p, "main_540")
  /\ UNCHANGED <<optVars, contended, sigRegistered, threads, warmup_handler,
                 loc, events>>

\* Lines 540-557 and 566-567: without an HA group the two servers are built;
\* with one, LOG(FATAL) aborts.
main_BuildServers(p) ==
  /\ pc[p] = "main_540"
  /\ UNCHANGED contended
  /\ IF mapd_parameters[p].ha_group_id
     THEN ProcessEnds(p, "abort", 0, "LOG_FATAL")
     ELSE /\ Goto(p, "main_558")
          /\ UNCHANGED <<optVars, sigRegistered, threads, warmVars>>

\* Line 558: std::thread bufThread(start_server, bufServer).
main_StartBufThread(p) ==
  /\ pc[p] = "main_558"
  /\ threads' = [threads EXCEPT ![p]["buf"] = "serving"]
  /\ Goto(p, "main_559")
  /\ UNCHANGED <<optVars, contended, sigRegistered, warmVars>>

\* A variant of main_StartHttpThread that goes on without starting the thread.
main_StartHttpThread_Skipped(p) ==
  /\ pc[p] = "main_559"
  /\ Goto(p, "main_562")
  /\ UNCHANGED <<optVars, contended, sigRegistered, threads, warmVars>>

\* Line 559: std::thread httpThread(start_server, httpServer).
main_StartHttpThread(p) ==
  /\ pc[p] = "main_559"
  /\ threads' = [threads EXCEPT ![p]["http"] = "serving"]
  /\ Goto(p, "main_562")
  /\ UNCHANGED <<optVars, contended, sigRegistered, warmVars>>

\* Lines 139-145: serve() ends, by returning or by raising a std::exception,
\* which is caught and logged; either way the thread's function returns.
start_server(p, t) ==
  /\ alive(p)
  /\ threads[p][t] = "serving"
  /\ \E how \in {"failed", "returned"} :
       threads' = [threads EXCEPT ![p][t] = how]
  /\ UNCHANGED <<envVars, optVars, exitVars, contended, sigRegistered, warmVars>>

ThreadEnded(p, t) == threads[p][t] \in {"failed", "returned"}

\* Line 564: bufThread.join().
main_JoinBuf(p) ==
  /\ pc[p] = "main_564"
  /\ ThreadEnded(p, "buf")
  /\ Goto(p, "main_565")
  /\ UNCHANGED <<optVars, contended, sigRegistered, threads, warmVars>>

\* Lines 565-569: httpThread.join(); return 0.
main_JoinHttp(p) ==
  /\ pc[p] = "main_565"
  /\ ThreadEnded(p, "http")
  /\ ProcessEnds(p, "return", 0, "main_569")
  /\ UNCHANGED contended

\* Where main is blocked in std::thread::join and runs no code of its own.
MainJoined(p) == pc[p] \in {"main_564", "main_565"}

\* The handler runs on the main thread, in the middle of whatever main was
\* doing. LOG, google::ShutdownGoogleLogging and exit are not
\* async-signal-safe: called from a handler that interrupted such a function
\* (a LOG that holds glog's lock, an allocation) their behaviour is undefined,
\* and besides running to the end the handler may block for ever on a lock
\* the interrupted code holds.
HandlerOutcomes(p) ==
  IF MainJoined(p) \/ pc[p] = "handler_blocked"
  THEN {"exits"}
  ELSE {"exits", "blocks"}

\* Lines 122-129: log, shut glog down, exit(signal_number). exit does not
\* unwind main's stack: no guard runs, no session is disconnected and no
\* thread is joined.
mapd_signal_handler(p, signal_number) ==
  \E outcome \in HandlerOutcomes(p) :
    IF outcome = "exits"
    THEN ProcessEnds(p, "exit", signal_number, "mapd_signal_handler")
    ELSE /\ pc' = [pc EXCEPT ![p] = "handler_blocked"]
         /\ UNCHANGED <<exit, lockOwner, pid_fd, envVars, optVars,
                        sigRegistered, threads, warmVars>>

\* A signal reaches a live process. SIGTERM, once the handler is installed,
\* runs mapd_signal_handler; any other case is the signal's default action:
\* the process is killed.
Signal(p) ==
  /\ alive(p)
  /\ UNCHANGED contended
  /\ \E signal_number \in {SIGTERM, SIGINT} :
       IF signal_number = SIGTERM /\ sigRegistered[p]
       THEN mapd_signal_handler(p, signal_number)
       ELSE ProcessEnds(p, "killed", signal_number, "signal")

\* ------------------------------------------------------------- the engine

\* How the handler's calls may end (MapDHandler is not part of this file):
\* connect hands out a session id, or the invalid one, or raises; sql_execute
\* and disconnect return or raise.
ConnectOutcomes == {"ok", "invalid", "raise"}
CallOutcomes == {"ok", "raise"}

Ev(op, sid, a, b, res, su) ==
  [op |-> op, sid |-> sid, a |-> a, b |-> b, res |-> res, su |-> su]

Log(p, es) == events' = [events EXCEPT ![p] = @ \o es]

\* disconnect(sid) on handler h: a call that returns ends the session, a call
\* that raises leaves the sessions as they were.
Disconnected(h, sid, res) ==
  IF res = "ok" THEN [h EXCEPT !.sessions = @ \ {sid}] ELSE h

\* ----------------------------------------------------- run_warmup_queries

\* A variant of PathEmpty that never sees an empty path.
PathEmpty_Never(query_file_path) == FALSE

\* Line 159.
PathEmpty(query_file_path) == Len(query_file_path) = 0

\* A variant of GuardDisconnects: a cleanup that only closes the file.
GuardDisconnects_Never(sessionId) == FALSE

\* Line 152: the cleanup disconnects a session id that is not the invalid one.
GuardDisconnects(sessionId) == sessionId # InvalidSessionId

\* Lines 157-173: return at once on an empty path; otherwise set the global
\* warmup_handler, the locals and the cleanup guard, and open the script.
run_warmup_queries_Enter(p) ==
  /\ pc[p] = "main_562"
  /\ IF PathEmpty(db_query_file[p])
     THEN /\ Goto(p, "main_564")
          /\ UNCHANGED warmVars
     ELSE /\ Goto(p, "w_174")
          /\ warmup_handler' = [warmup_handler EXCEPT ![p] = TRUE]
          /\ loc' = [loc EXCEPT ![p] =
                       [NoLocals EXCEPT !.file =
                          IF db_query_file[p] = ScriptPath THEN "open" ELSE "failed"]]
          /\ Log(p, <<Ev("open", InvalidSessionId, db_query_file[p], <<>>,
                         IF db_query_file[p] = ScriptPath THEN "ok" ELSE "failed",
                         handler[p].super_user_rights_)>>)
          /\ UNCHANGED handler
  /\ UNCHANGED <<optVars, contended, sigRegistered, threads>>

\* std::getline on the script: is there a line left to read?
HasLine(p) == loc[p].file = "open" /\ loc[p].filePos <= Len(script)

\* Lines 174-180 and 204-210: read a line at header position. The end of the
\* file leaves the try block; an empty line is skipped; a line whose keyword
\* passes the test of line 180 opens a block; any other line is warned about.
run_warmup_queries_Header(p) ==
  /\ pc[p] = "w_174"
  /\ IF ~HasLine(p)
     THEN /\ Goto(p, "w_exit")
          /\ UNCHANGED <<loc, events>>
     ELSE LET db_info == script[loc[p].filePos]
              parsed == ParseHeader(db_info, loc[p].user_keyword,
                                    loc[p].user_name, loc[p].db_name)
          IN IF IsEmptyLine(db_info)
             THEN /\ Goto(p, "w_174")
                  /\ loc' = [loc EXCEPT ![p].filePos = @ + 1]
                  /\ UNCHANGED events
             ELSE /\ loc' = [loc EXCEPT ![p] =
                               [@ EXCEPT !.filePos = @ + 1,
                                         !.user_keyword = parsed.user_keyword,
                                         !.user_name = parsed.user_name,
                                         !.db_name = parsed.db_name]]
                  /\ IF IsUserHeader(parsed.user_keyword)
                     THEN /\ Goto(p, "w_182")
                          /\ UNCHANGED events
                     ELSE /\ Goto(p, "w_174")
                          /\ Log(p, <<Ev("warn_syntax", loc[p].sessionId, db_info,
                                         <<>>, "", handler[p].super_user_rights_)>>)
  /\ UNCHANGED <<optVars, contended, sigRegistered, threads, handler,
                 warmup_handler>>

\* Line 182.
run_warmup_queries_Elevate(p) ==
  /\ pc[p] = "w_182"
  /\ handler' = [handler EXCEPT ![p].super_user_rights_ = TRUE]
  /\ Goto(p, "w_183")
  /\ UNCHANGED <<optVars, contended, sigRegistered, threads, warmup_handler,
                 loc, events>>

\* Line 183: connect(sessionId, user_name, "", db_name).
run_warmup_queries_Connect(p) ==
  /\ pc[p] = "w_183"
  /\ \E res \in ConnectOutcomes :
       LET sid == IF res = "ok" THEN <<handler[p].nextSession>>
                  ELSE IF res = "invalid" THEN InvalidSessionId
                  ELSE loc[p].sessionId
       IN /\ Log(p, <<Ev("connect", sid, loc[p].user_name, loc[p].db_name, res,
                         handler[p].super_user_rights_)>>)
          /\ handler' = [handler EXCEPT ![p] =
                           IF res = "ok"
                           THEN [@ EXCEPT !.sessions = @ \cup {sid},
                                          !.nextSession = @ + 1]
                           ELSE @]
          /\ loc' = [loc EXCEPT ![p] =
                       [@ EXCEPT !.sessionId = sid, !.unwinding = (res = "raise")]]
          /\ Goto(p, IF res = "raise" THEN "w_exit" ELSE "w_184")
  /\ UNCHANGED <<optVars, contended, sigRegistered, threads, warmup_handler>>

\* Line 184.
run_warmup_queries_Revoke(p) ==
  /\ pc[p] = "w_184"
  /\ handler' = [handler EXCEPT ![p].super_user_rights_ = FALSE]
  /\ Goto(p, "w_189")
  /\ UNCHANGED <<optVars, contended, sigRegistered, threads, warmup_handler,
                 loc, events>>

\* A variant of AfterStatement that goes on with the next line even when
\* sql_execute raised.
AfterStatement_Continue(res) == "w_189"

\* Where control goes after the sql_execute of line 197: an exception leaves
\* the try block, a return goes back to the inner loop (line 189).
AfterStatement(res) == IF res = "raise" THEN "w_exit" ELSE "w_189"

\* Lines 189-199: read a line inside the block. The end of the file and a line
\* that is exactly "}" end the block; an empty line is skipped; any other line
\* is handed to sql_execute.
run_warmup_queries_Statement(p) ==
  /\ pc[p] = "w_189"
  /\ IF ~HasLine(p)
     THEN /\ Goto(p, "w_202")
          /\ UNCHANGED <<loc, events>>
     ELSE LET single_query == script[loc[p].filePos]
          IN IF IsEmptyLine(single_query)
             THEN /\ Goto(p, "w_189")
                  /\ loc' = [loc EXCEPT ![p].filePos = @ + 1]
                  /\ UNCHANGED events
             ELSE IF IsBlockEnd(single_query)
             THEN /\ Goto(p, "w_202")
                  /\ loc' = [loc EXCEPT ![p].filePos = @ + 1]
                  /\ UNCHANGED events
             ELSE \E res \in CallOutcomes :
                    /\ Log(p, <<Ev("sql_execute", loc[p].sessionId, single_query,
                                   <<>>, res, handler[p].super_user_rights_)>>)
                    /\ loc' = [loc EXCEPT ![p] =
                                 [@ EXCEPT !.filePos = @ + 1,
                                           !.unwinding = (res = "raise")]]
                    /\ Goto(p, AfterStatement(res))
  /\ UNCHANGED <<optVars, contended, sigRegistered, threads, handler,
                 warmup_handler>>

\* A variant of AfterBlockDisconnect that goes on with the next block even
\* when the disconnect raised.
AfterBlockDisconnect_Continue(res) == "w_174"

\* Where control goes after the disconnect of line 202: an exception leaves
\* the try block, a return goes back to the outer loop (line 174).
AfterBlockDisconnect(res) == IF res = "raise" THEN "w_exit" ELSE "w_174"

\* Lines 202-203 and 209: disconnect(sessionId), then the session id is reset.
run_warmup_queries_Disconnect(p) ==
  /\ pc[p] = "w_202"
  /\ \E res \in CallOutcomes :
       /\ Log(p, <<Ev("disconnect", loc[p].sessionId, <<>>, "block", res,
                      handler[p].super_user_rights_)>>)
       /\ handler' = [handler EXCEPT ![p] = Disconnected(@, loc[p].sessionId, res)]
       /\ loc' = [loc EXCEPT ![p] =
                    IF res = "ok"
                    THEN [@ EXCEPT !.sessionId = InvalidSessionId]
                    ELSE [@ EXCEPT !.unwinding = TRUE]]
       /\ Goto(p, AfterBlockDisconnect(res))
  /\ UNCHANGED <<optVars, contended, sigRegistered, threads, warmup_handler>>

\* ScopeGuard (Shared/scope.h) runs its action from its destructor; the guard
\* of line 172 runs only with an exception in flight whenever it has a session
\* to disconnect, and an exception that leaves a destructor then calls
\* std::terminate: the process ends inside run_warmup_queries.
GuardThrows(p) == ProcessEnds(p, "terminate", 0, "releaseWarmupSession")

\* Lines 150-155, 172 and 211-215: the try block is left, by the end of the
\* loop or by an exception. The guard's destructor runs releaseWarmupSession:
\* the script is closed, and a session id that is not the invalid one is
\* disconnected. An exception that leaves that destructor calls
\* std::terminate. Otherwise an exception in flight reaches catch (...), which
\* logs the warning, and run_warmup_queries returns.
releaseWarmupSession(p) ==
  /\ pc[p] = "w_exit"
  /\ UNCHANGED contended
  /\ LET closing == Ev("close", loc[p].sessionId, <<>>, "guard", "ok",
                       handler[p].super_user_rights_)
         caught == IF loc[p].unwinding
                   THEN <<Ev("warn_exception", InvalidSessionId, <<>>, <<>>, "",
                             handler[p].super_user_rights_)>>
                   ELSE <<>>
         done == [loc[p] EXCEPT !.file = "closed", !.unwinding = FALSE]
     IN IF GuardDisconnects(loc[p].sessionId)
        THEN \E res \in CallOutcomes :
               LET call == Ev("disconnect", loc[p].sessionId, <<>>, "guard", res,
                              handler[p].super_user_rights_)
               IN IF res = "raise"
                  THEN GuardThrows(p)
                  ELSE /\ handler' = [handler EXCEPT ![p] =
                                        Disconnected(@, loc[p].sessionId, res)]
                       /\ loc' = [loc EXCEPT ![p] = done]
                       /\ Log(p, <<closing, call>> \o caught)
                       /\ Goto(p, "main_564")
                       /\ UNCHANGED <<optVars, sigRegistered, threads,
                                      warmup_handler>>
        ELSE /\ Log(p, <<closing>> \o caught)
             /\ loc' = [loc EXCEPT ![p] = done]
             /\ Goto(p, "main_564")
             /\ UNCHANGED <<optVars, sigRegistered, threads, handler,
                            warmup_handler>>

\* --------------------------------------------------------------- clients

IsClientConnect(e) == e.op = "client_connect"

\* What a worker thread reads in handler->super_user_rights_. The flag is a
\* plain bool that main writes at lines 182 and 184 with no lock; a read that
\* races with one of these writes gives the value before it or the value
\* after it, which are the two orders in which this step and the write are
\* taken.
FlagReads(p) == {handler[p].super_user_rights_}

\* Lines 139-141 and 558-559: a worker of a serving endpoint processes a
\* client's connect on the shared handler, under whatever value of
\* super_user_rights_ it reads.
client_connect(p, t) ==
  /\ alive(p)
  /\ threads[p][t] = "serving"
  /\ handler[p].constructed
  /\ Len(SelectSeq(events[p], IsClientConnect)) < MaxClientConnects
  /\ \E seen \in FlagReads(p) :
       Log(p, <<Ev("client_connect", InvalidSessionId, <<>>, t, "ok", seen)>>)
  /\ UNCHANGED <<envVars, optVars, exitVars, contended, sigRegistered, threads,
                 handler, warmup_handler, loc>>

\* ---------------------------------------------------------- specifications

WarmupStep(p) ==
  \/ run_warmup_queries_Enter(p)
  \/ run_warmup_queries_Header(p)
  \/ run_warmup_queries_Elevate(p)
  \/ run_warmup_queries_Connect(p)
  \/ run_warmup_queries_Revoke(p)
  \/ run_warmup_queries_Statement(p)
  \/ run_warmup_queries_Disconnect(p)
  \/ releaseWarmupSession(p)

Next ==
  \E p \in Procs :
    \/ main_ParseOptions(p)
    \/ main_ClusterCheck(p)
    \/ main_ParseCluster(p)
    \/ main_Partition(p)
    \/ main_HelpVersion(p)
    \/ main_CheckPaths(p)
    \/ main_OpenLockFile(p)
    \/ main_Lockf(p)
    \/ main_WritePid(p)
    \/ main_InitLogging(p)
    \/ main_CheckHA(p)
    \/ register_signal_handler(p)
    \/ main_ConstructHandler(p)
    \/ main_BuildServers(p)
    \/ main_StartBufThread(p)
    \/ main_StartHttpThread(p)
    \/ WarmupStep(p)
    \/ main_JoinBuf(p)
    \/ main_JoinHttp(p)
    \/ \E t \in Endpoints : start_server(p, t)
    \/ Signal(p)

Spec == Init /\ [][Next]_vars

\* The warm-up specification: process 1 has taken the lock, built the handler
\* and started both endpoint threads, and is about to call run_warmup_queries
\* (line 562) on a script of at most MaxLines lines; only warm-up steps follow.
InitWarmup ==
  /\ lockOwner = 1
  /\ fsMissing = {}
  /\ script \in BoundedScripts
  /\ clusterConf \in ClusterConfigs
  /\ pc = [p \in Procs |-> IF p = 1 THEN "main_562" ELSE "main_354"]
  /\ exit = [p \in Procs |-> Running]
  /\ contended = [p \in Procs |-> FALSE]
  /\ vm = [p \in Procs |-> NoOptions]
  /\ topo = [p \in Procs |-> NoTopology]
  /\ db_query_file \in {[p \in Procs |-> IF p = 1 THEN q ELSE <<>>] :
                          q \in {<<>>, ScriptPath}}
  /\ mapd_parameters = [p \in Procs |-> NoHAParameters]
  /\ pid_fd = [p \in Procs |-> IF p = 1 THEN "open" ELSE "none"]
  /\ sigRegistered = [p \in Procs |-> p = 1]
  /\ handler = [p \in Procs |-> IF p = 1 THEN NewHandler ELSE NoHandler]
  /\ warmup_handler = [p \in Procs |-> FALSE]
  /\ threads = [p \in Procs |->
                  [t \in Endpoints |-> IF p = 1 THEN "serving" ELSE "notStarted"]]
  /\ loc = [p \in Procs |-> NoLocals]
  /\ events = [p \in Procs |-> <<>>]

NextWarmup == \E p \in Procs : WarmupStep(p)

SpecWarmup == InitWarmup /\ [][NextWarmup]_vars

\* The cluster specification: process 1 runs lines 354-414 on every cluster
\* file of at most MaxNodes descriptors and every setting of the two flags.
BoundedConfigs == SeqsUpTo(Descriptors, MaxNodes)

InitCluster ==
  /\ lockOwner = NoProc
  /\ fsMissing = {}
  /\ script = <<>>
  /\ clusterConf \in BoundedConfigs
  /\ pc = [p \in Procs |-> "main_354"]
  /\ exit = [p \in Procs |-> Running]
  /\ contended = [p \in Procs |-> FALSE]
  /\ vm = [p \in Procs |-> NoOptions]
  /\ topo = [p \in Procs |-> NoTopology]
  /\ db_query_file = [p \in Procs |-> <<>>]
  /\ mapd_parameters = [p \in Procs |-> NoHAParameters]
  /\ pid_fd = [p \in Procs |-> "none"]
  /\ sigRegistered = [p \in Procs |-> FALSE]
  /\ handler = [p \in Procs |-> NoHandler]
  /\ warmup_handler = [p \in Procs |-> FALSE]
  /\ threads = [p \in Procs |-> [t \in Endpoints |-> "notStarted"]]
  /\ loc = [p \in Procs |-> NoLocals]
  /\ events = [p \in Procs |-> <<>>]

NextCluster ==
  \/ main_ParseOptions(1)
  \/ main_ClusterCheck(1)
  \/ main_ParseCluster(1)
  \/ main_Partition(1)
  \/ main_HelpVersion(1)

SpecCluster == InitCluster /\ [][NextCluster]_vars

\* The client specification: process 1 is about to call run_warmup_queries
\* on a script, with both endpoints serving clients while it runs.
InitClients ==
  /\ lockOwner = 1
  /\ fsMissing = {}
  /\ script \in StartupScripts
  /\ clusterConf \in ClusterConfigs
  /\ pc = [p \in Procs |-> IF p = 1 THEN "main_562" ELSE "main_354"]
  /\ exit = [p \in Procs |-> Running]
  /\ contended = [p \in Procs |-> FALSE]
  /\ vm = [p \in Procs |-> NoOptions]
  /\ topo = [p \in Procs |-> NoTopology]
  /\ db_query_file = [p \in Procs |-> IF p = 1 THEN ScriptPath ELSE <<>>]
  /\ mapd_parameters = [p \in Procs |-> NoHAParameters]
  /\ pid_fd = [p \in Procs |-> IF p = 1 THEN "open" ELSE "none"]
  /\ sigRegistered = [p \in Procs |-> p = 1]
  /\ handler = [p \in Procs |-> IF p = 1 THEN NewHandler ELSE NoHandler]
  /\ warmup_handler = [p \in Procs |-> FALSE]
  /\ threads = [p \in Procs |->
                  [t \in Endpoints |-> IF p = 1 THEN "serving" ELSE "notStarted"]]
  /\ loc = [p \in Procs |-> NoLocals]
  /\ events = [p \in Procs |-> <<>>]

NextClients ==
  \/ WarmupStep(1)
  \/ \E t \in Endpoints : client_connect(1, t)

SpecClients == InitClients /\ [][NextClients]_vars

\* ----------------------------------------------- reading the histories

EngineOps == {"connect", "sql_execute", "disconnect"}

IsEngineCall(e) == e.op \in EngineOps

EngineCalls(p) == SelectSeq(events[p], IsEngineCall)

AllOk(p) == \A i \in DOMAIN events[p] :
              IsEngineCall(events[p][i]) => events[p][i].res = "ok"

\* run_warmup_queries has run on a script and returned to main.
Returned(p) == pc[p] \in {"main_564", "main_565"} /\ Len(db_query_file[p]) > 0

\* An engine call as the script determines it: its name, session and arguments.
CallOf(e) ==
  IF e.op = "connect" THEN <<"connect", e.sid, e.a, e.b>>
  ELSE IF e.op = "sql_execute" THEN <<"sql_execute", e.sid, e.a>>
  ELSE <<"disconnect", e.sid>>

RECURSIVE MapCalls(_)
MapCalls(es) == IF es = <<>> THEN <<>> ELSE <<CallOf(Head(es))>> \o MapCalls(Tail(es))

\* The script grammar of the specification. The tokens of a line:
RECURSIVE Tokens(_)
Tokens(s) ==
  LET t == SkipWs(s)
  IN IF t = <<>> THEN <<>>
     ELSE <<TakeToken(t)>> \o Tokens(SubSeq(t, Len(TakeToken(t)) + 1, Len(t)))

\* header := "USER" WS username WS databaseName
GrammarHeader(line) == Len(Tokens(line)) = 3 /\ Tokens(line)[1] = Str_USER

\* A malformed header: a non-empty line whose first token is not USER.
GrammarMalformed(line) ==
  line # <<>> /\ (Tokens(line) = <<>> \/ Tokens(line)[1] # Str_USER)

\* The calls the grammar asks for: every block, in file order, is a connect,
\* its statements in order, and a disconnect; the n-th session is <<n>>;
\* malformed headers and empty lines contribute nothing.
RECURSIVE GrammarCalls(_, _, _)
GrammarCalls(lines, inBlock, n) ==
  IF lines = <<>>
  THEN IF inBlock THEN << <<"disconnect", <<n>>>> >> ELSE <<>>
  ELSE LET line == Head(lines)
           rest == Tail(lines)
       IN IF line = <<>> THEN GrammarCalls(rest, inBlock, n)
          ELSE IF inBlock
          THEN IF line = Str_Close
               THEN << <<"disconnect", <<n>>>> >> \o GrammarCalls(rest, FALSE, n + 1)
               ELSE << <<"sql_execute", <<n>>, line>> >> \o GrammarCalls(rest, TRUE, n)
          ELSE IF GrammarHeader(line)
               THEN << <<"connect", <<n>>, Tokens(line)[2], Tokens(line)[3]>> >>
                    \o GrammarCalls(rest, TRUE, n)
               ELSE GrammarCalls(rest, FALSE, n)

\* The lines at header position that are malformed, in file order, and
\* whether every line at header position is a header, malformed or empty.
RECURSIVE GrammarSkipped(_, _)
GrammarSkipped(lines, inBlock) ==
  IF lines = <<>> THEN <<>>
  ELSE LET line == Head(lines)
           rest == Tail(lines)
       IN IF line = <<>> THEN GrammarSkipped(rest, inBlock)
          ELSE IF inBlock THEN GrammarSkipped(rest, line # Str_Close)
          ELSE IF GrammarHeader(line) THEN GrammarSkipped(rest, TRUE)
          ELSE <<line>> \o GrammarSkipped(rest, FALSE)

RECURSIVE GrammarCovers(_, _)
GrammarCovers(lines, inBlock) ==
  IF lines = <<>> THEN TRUE
  ELSE LET line == Head(lines)
           rest == Tail(lines)
       IN IF line = <<>> THEN GrammarCovers(rest, inBlock)
          ELSE IF inBlock THEN GrammarCovers(rest, line # Str_Close)
          ELSE IF GrammarHeader(line) THEN GrammarCovers(rest, TRUE)
          ELSE GrammarMalformed(line) /\ GrammarCovers(rest, FALSE)

IsSyntaxWarning(e) == e.op = "warn_syntax"

RECURSIVE WarnedLines(_)
WarnedLines(es) ==
  IF es = <<>> THEN <<>>
  ELSE IF IsSyntaxWarning(Head(es)) THEN <<Head(es).a>> \o WarnedLines(Tail(es))
  ELSE WarnedLines(Tail(es))

Count(es, Test(_)) == Len(SelectSeq(es, Test))

PreLock ==
  {"main_354", "main_365", "main_368", "main_369", "main_378", "main_416",
   "main_447", "main_454"}

EndpointRunning(p) == alive(p) /\ \E t \in Endpoints : threads[p][t] = "serving"

\* ------------------------------------------------------------------ claims

\* C1: a process whose lockf found the lock held by another process has ended
\* with return 1 at that point and has done nothing further: no signal
\* handler, no handler object, no endpoint thread, no warm-up.
C1_LockedOutStartFails ==
  \A p \in Procs :
    contended[p] =>
      /\ pc[p] = "exited"
      /\ exit[p] = [how |-> "return", code |-> 1, at |-> "lockf"]
      /\ ~sigRegistered[p]
      /\ ~handler[p].constructed
      /\ \A t \in Endpoints : threads[p][t] = "notStarted"
      /\ ~warmup_handler[p]
      /\ events[p] = <<>>

C1_Witness ==
  \E p \in Procs, q \in Procs :
    /\ p # q
    /\ contended[p]
    /\ exit[p].at = "lockf"
    /\ alive(q)
    /\ lockOwner = q

\* C2: a live process that is past the lock step holds the lock with its
\* descriptor open, endpoints run only in such a process, and so two processes
\* never have a running endpoint at the same time.
C2_OneServerPerDirectory ==
  /\ \A p \in Procs :
       (alive(p) /\ pc[p] \notin PreLock) => (lockOwner = p /\ pid_fd[p] = "open")
  /\ \A p \in Procs : EndpointRunning(p) => pc[p] \notin PreLock
  /\ \A p \in Procs, q \in Procs :
       (p # q /\ EndpointRunning(p)) => ~EndpointRunning(q)

C2_Witness ==
  \E p \in Procs, q \in Procs :
    p # q /\ EndpointRunning(p) /\ contended[q] /\ lockOwner = p

\* C3: when a script of well-formed blocks has been replayed with no engine
\* call failing, the engine calls are exactly those of the grammar: one
\* connect/disconnect cycle per block in file order, each with the block's
\* statements in order in between.
C3_BlocksReplayedInOrder ==
  \A p \in Procs :
    (Returned(p) /\ AllOk(p) /\ GrammarCovers(script, FALSE)
       /\ GrammarSkipped(script, FALSE) = <<>>)
      => MapCalls(EngineCalls(p)) = GrammarCalls(script, FALSE, 1)

C3_Witness ==
  \E p \in Procs :
    /\ Returned(p) /\ AllOk(p)
    /\ GrammarCovers(script, FALSE) /\ GrammarSkipped(script, FALSE) = <<>>
    /\ Len(EngineCalls(p)) = 4
    /\ EngineCalls(p)[3].op = "connect"

\* C4: when a script has been replayed with no engine call failing, every line
\* at header position whose first token is not USER has produced a warning
\* and nothing else, and every block has been replayed.
C4_MalformedHeaderSkipped ==
  \A p \in Procs :
    (Returned(p) /\ AllOk(p) /\ GrammarCovers(script, FALSE))
      => /\ MapCalls(EngineCalls(p)) = GrammarCalls(script, FALSE, 1)
         /\ WarnedLines(events[p]) = GrammarSkipped(script, FALSE)

\* C5: once run_warmup_queries has returned, every session on which an
\* sql_execute raised has been disconnected after that and the script has
\* been closed after that.
C5_CleanupAfterFailedStatement ==
  \A p \in Procs :
    Returned(p) =>
      \A i \in DOMAIN events[p] :
        LET e == events[p][i]
        IN (e.op = "sql_execute" /\ e.res = "raise" /\ e.sid # InvalidSessionId)
             => /\ \E j \in DOMAIN events[p] :
                     /\ j > i
                     /\ events[p][j].op = "disconnect"
                     /\ events[p][j].sid = e.sid
                     /\ events[p][j].res = "ok"
                /\ \E j \in DOMAIN events[p] : j > i /\ events[p][j].op = "close"
                /\ e.sid \notin handler[p].sessions
                /\ loc[p].file = "closed"

C5_Witness ==
  \E p \in Procs :
    /\ Returned(p)
    /\ \E i \in DOMAIN events[p] :
         /\ events[p][i].op = "sql_execute"
         /\ events[p][i].res = "raise"
         /\ events[p][i].sid # InvalidSessionId

\* C6: once run_warmup_queries has returned, disconnect has been called
\* exactly once for every session a connect opened, and the script has been
\* closed exactly once.
C6_ExactlyOnceCleanup ==
  \A p \in Procs :
    Returned(p) =>
      /\ \A i \in DOMAIN events[p] :
           (events[p][i].op = "connect" /\ events[p][i].res = "ok")
             => Cardinality({j \in DOMAIN events[p] :
                               /\ events[p][j].op = "disconnect"
                               /\ events[p][j].sid = events[p][i].sid}) = 1
      /\ Cardinality({j \in DOMAIN events[p] : events[p][j].op = "close"}) = 1

\* C7: no error raised during warm-up ends the process: a process never ends
\* inside run_warmup_queries.
C7_WarmupNeverFatal ==
  \A p \in Procs : exit[p].how # "terminate"

\* C8: with an empty script path the process is never inside the replay, no
\* engine call, file operation or warning has happened, the global
\* warmup_handler is still null and the elevation flag is off.
C8_EmptyPathNoOp ==
  \A p \in Procs :
    (alive(p) /\ Len(db_query_file[p]) = 0) =>
      /\ pc[p] \notin {"w_174", "w_182", "w_183", "w_184", "w_189", "w_202", "w_exit"}
      /\ events[p] = <<>>
      /\ ~warmup_handler[p]
      /\ ~handler[p].super_user_rights_
      /\ handler[p].sessions = {}
      /\ loc[p] = NoLocals

C8_Witness ==
  \E p \in Procs :
    pc[p] = "main_564" /\ Len(db_query_file[p]) = 0 /\ handler[p].constructed

\* C9: a process in which one endpoint's serve() has raised while the other
\* endpoint is still serving ends only by a signal.
C9_EndpointIndependence ==
  [][\A p \in Procs :
       ( /\ alive(p)
         /\ \E t \in Endpoints, u \in Endpoints :
              threads[p][t] = "failed" /\ threads[p][u] = "serving"
         /\ ~alive(p)' )
       => exit'[p].how \in {"exit", "killed"}]_vars

\* C10: the elevation flag is on only between line 182 and line 184, that is
\* around the connect call.
C10_ElevationOnlyAroundConnect ==
  \A p \in Procs :
    handler[p].super_user_rights_ => pc[p] \in {"w_183", "w_184"}

\* Where main is once lines 365-376 are behind it and before any later step
\* this specification takes.
ClusterResolved(p) == pc[p] \in {"main_378", "main_416"}

IsDbLeaf(d) == d.role = Role_DbLeaf
IsStringLeaf(d) == d.role = Role_String

Range(seq) == {seq[i] : i \in DOMAIN seq}

\* sub is seq with some elements left out, the others in their order.
RECURSIVE IsSubSeq(_, _)
IsSubSeq(sub, seq) ==
  IF sub = <<>> THEN TRUE
  ELSE IF seq = <<>> THEN FALSE
  ELSE IF Head(sub) = Head(seq) THEN IsSubSeq(Tail(sub), Tail(seq))
  ELSE IsSubSeq(sub, Tail(seq))

\* C11: once the cluster block is behind main, with a flag set db_leaves and
\* string_leaves are disjoint sub-sequences of the parsed list in its order,
\* db_leaves holds the DbLeaf descriptors exactly when --cluster is set (and
\* nothing otherwise), string_leaves holds the String descriptors, Aggregator
\* descriptors are in neither, and g_cluster is true; with no flag set both
\* are empty and g_cluster is as it was.
C11_PartitionByRole ==
  \A p \in Procs :
    (alive(p) /\ ClusterResolved(p)) =>
      IF vm[p].cluster \/ vm[p].string_servers
      THEN /\ IsSubSeq(topo[p].db_leaves, clusterConf)
           /\ IsSubSeq(topo[p].string_leaves, clusterConf)
           /\ Range(topo[p].db_leaves) \cap Range(topo[p].string_leaves) = {}
           /\ topo[p].db_leaves =
                IF vm[p].cluster THEN SelectSeq(clusterConf, IsDbLeaf) ELSE <<>>
           /\ topo[p].string_leaves = SelectSeq(clusterConf, IsStringLeaf)
           /\ \A i \in DOMAIN clusterConf :
                clusterConf[i].role = Role_Aggregator =>
                  clusterConf[i] \notin
                    Range(topo[p].db_leaves) \cup Range(topo[p].string_leaves)
           /\ topo[p].g_cluster
      ELSE topo[p] = NoTopology

C11_Witness ==
  \E p \in Procs :
    /\ alive(p) /\ ClusterResolved(p)
    /\ vm[p].cluster
    /\ Len(clusterConf) = 3
    /\ Len(topo[p].db_leaves) = 1
    /\ Len(topo[p].string_leaves) = 1

\* C12: the step of lines 365-366 aborts at the CHECK_NE when both flags are
\* set, with the cluster file not parsed and db_leaves, string_leaves and
\* g_cluster as they were; it goes on to the parse when exactly one is set;
\* and it skips the block, leaving the topology empty, when neither is set.
C12_FlagsExclusive ==
  [][\A p \in Procs :
       (pc[p] = "main_365" /\ pc'[p] # "main_365") =>
         /\ topo[p] = NoTopology
         /\ (vm[p].cluster /\ vm[p].string_servers) =>
              /\ exit'[p] = [how |-> "abort", code |-> 0, at |-> "CHECK_NE"]
              /\ topo'[p] = NoTopology
         /\ (vm[p].cluster # vm[p].string_servers) =>
              /\ alive(p)'
              /\ pc'[p] = "main_368"
              /\ topo'[p] = NoTopology
         /\ (~vm[p].cluster /\ ~vm[p].string_servers) =>
              /\ alive(p)'
              /\ pc'[p] = "main_378"
              /\ topo'[p] = NoTopology]_vars

C12_Witness ==
  \E p \in Procs :
    exit[p] = [how |-> "abort", code |-> 0, at |-> "CHECK_NE"]

\* Lines 365-376 are behind main and have done their work: with one flag set
\* the topology is the partition of the cluster file.
TopologyResolved(p) ==
  /\ pc[p] \notin {"main_354", "main_365", "main_368", "main_369"}
  /\ (vm[p].cluster # vm[p].string_servers) =>
       /\ topo[p].g_cluster
       /\ topo[p].db_leaves =
            IF vm[p].cluster THEN SelectSeq(clusterConf, IsDbLeaf) ELSE <<>>
       /\ topo[p].string_leaves = SelectSeq(clusterConf, IsStringLeaf)

\* Lines 447-469 are behind main: the lock is held and the pid is written.
LockAcquired(p) ==
  /\ lockOwner = p
  /\ pid_fd[p] = "open"
  /\ pc[p] \notin PreLock \cup {"main_460"}

\* run_warmup_queries has done something: the global is set, the script has
\* been opened (or the attempt made), or an engine call has been made.
WarmupActed(p) ==
  events[p] # <<>> \/ warmup_handler[p] \/ loc[p].file # "unopened"

\* C13: while a process has an endpoint thread started, the topology is
\* resolved and the lock acquired; and once warm-up has acted, both endpoint
\* threads have been started.
C13_StartupOrder ==
  \A p \in Procs :
    alive(p) =>
      /\ (\E t \in Endpoints : threads[p][t] # "notStarted")
           => (TopologyResolved(p) /\ LockAcquired(p))
      /\ WarmupActed(p)
           => \A t \in Endpoints : threads[p][t] # "notStarted"

C13_Witness ==
  \E p \in Procs :
    /\ alive(p)
    /\ topo[p].g_cluster
    /\ \E i \in DOMAIN events[p] : events[p][i].op = "connect"
    /\ \A t \in Endpoints : threads[p][t] # "notStarted"

\* C14: as the claim states it: the topology is resolved only in a process
\* that holds the lock.
C14_GuardBeforeTopology ==
  \A p \in Procs :
    (alive(p) /\ topo[p].g_cluster) => lockOwner = p

\* C14, amended: the topology is resolved first, the lock comes after it: a
\* process that has opened the lock file or holds the lock has the topology
\* resolved, one that is locked out included.
C14_TopologyBeforeGuard ==
  \A p \in Procs :
    (alive(p) /\ (pid_fd[p] = "open" \/ lockOwner = p \/ pc[p] = "main_447"))
      => TopologyResolved(p)

C14_Witness ==
  \E p \in Procs, q \in Procs :
    /\ p # q
    /\ alive(p) /\ alive(q)
    /\ lockOwner = q
    /\ pc[p] = "main_454"
    /\ topo[p].g_cluster

\* The successful connects before position i of a history that no successful
\* disconnect of the same session follows before i.
LiveBefore(es, i) ==
  {j \in 1..(i - 1) :
     /\ es[j].op = "connect" /\ es[j].res = "ok"
     /\ ~\E k \in (j + 1)..(i - 1) :
          es[k].op = "disconnect" /\ es[k].res = "ok" /\ es[k].sid = es[j].sid}

\* C15: the handler never holds two warm-up sessions, a connect is about to
\* be made only with none, and in the history every connect comes with every
\* earlier session disconnected.
C15_OneLiveSession ==
  \A p \in Procs :
    /\ Cardinality(handler[p].sessions) <= 1
    /\ pc[p] \in {"w_182", "w_183"} => handler[p].sessions = {}
    /\ \A i \in DOMAIN events[p] :
         events[p][i].op = "connect" => LiveBefore(events[p], i) = {}

C15_Witness ==
  \E p \in Procs :
    /\ Cardinality(handler[p].sessions) = 1
    /\ Cardinality({i \in DOMAIN events[p] :
                      events[p][i].op = "connect" /\ events[p][i].res = "ok"}) = 2

C17_PathChecksInOrder ==
  \A p \in Procs :
    /\ \A i \in 1..Len(FsItems) :
         exit[p].at = FsItems[i] =>
           /\ exit[p].how = "return" /\ exit[p].code = 1
           /\ FsItems[i] \in fsMissing
           /\ \A j \in 1..(i - 1) : FsItems[j] \notin fsMissing
           /\ pid_fd[p] = "none"
           /\ lockOwner # p
           /\ ~contended[p]
    /\ (pid_fd[p] # "none" \/ pc[p] = "main_447") => fsMissing = {}

C17_Witness ==
  \E p \in Procs :
    /\ exit[p].at = "data_path"
    /\ "db_file" \in fsMissing
    /\ pid_fd[p] = "none"

\* C18: the step of lines 489-512, with an HA group id, returns 5 without a
\* unique server id, else 6 without brokers, else 7 without shared data, and
\* otherwise goes on to line 516; nothing of the handler, the endpoints or
\* the warm-up exists at that step, and a process that returned there never
\* gets to them.
C18_HAExitCodes ==
  [][\A p \in Procs :
       (pc[p] = "main_489" /\ pc'[p] # "main_489" /\ exit'[p].how # "killed") =>
         LET m == mapd_parameters[p]
             Returns(code) ==
               /\ exit'[p] = [how |-> "return", code |-> code, at |-> "ha"]
               /\ ~handler'[p].constructed
               /\ \A t \in Endpoints : threads'[p][t] = "notStarted"
               /\ events'[p] = <<>>
         IN /\ ~handler[p].constructed
            /\ \A t \in Endpoints : threads[p][t] = "notStarted"
            /\ events[p] = <<>>
            /\ IF ~m.ha_group_id THEN alive(p)' /\ pc'[p] = "main_516"
               ELSE IF ~m.ha_unique_server_id THEN Returns(5)
               ELSE IF ~m.ha_brokers THEN Returns(6)
               ELSE IF ~m.ha_shared_data THEN Returns(7)
               ELSE alive(p)' /\ pc'[p] = "main_516"]_vars

C18_Witness ==
  \E p \in Procs : exit[p] = [how |-> "return", code |-> 7, at |-> "ha"]

\* C19: in the history, an engine call that follows an engine call that
\* raised is the cleanup's disconnect of the session that was open, and there
\* is at most one.
C19_ReplayStopsAtFirstError ==
  \A p \in Procs :
    \A i \in DOMAIN events[p], k \in DOMAIN events[p] :
      ( /\ i < k
        /\ IsEngineCall(events[p][i]) /\ events[p][i].res = "raise"
        /\ IsEngineCall(events[p][k]) )
        => /\ events[p][k].op = "disconnect"
           /\ events[p][k].b = "guard"
           /\ events[p][k].sid = events[p][i].sid
           /\ events[p][k].sid # InvalidSessionId
           /\ \A n \in DOMAIN events[p] :
                (n > i /\ IsEngineCall(events[p][n])) => n = k

C19_Witness ==
  \E p \in Procs :
    /\ Returned(p)
    /\ loc[p].filePos <= Len(script)
    /\ \E i \in DOMAIN events[p] :
         /\ events[p][i].op = "sql_execute" /\ events[p][i].res = "raise"
         /\ \E k \in DOMAIN events[p] :
              k > i /\ events[p][k].op = "disconnect"

\* The line read last at header position.
HeaderLine(p) == script[loc[p].filePos - 1]

\* C20: a connect is made for a line at header position exactly when the
\* line's first token is USER: where a block is being opened the header's
\* first token is USER, and every line warned about has another first token.
C20_ExactKeyword ==
  \A p \in Procs :
    /\ pc[p] \in {"w_182", "w_183", "w_184"} =>
         /\ Tokens(HeaderLine(p)) # <<>>
         /\ Tokens(HeaderLine(p))[1] = Str_USER
    /\ \A i \in DOMAIN events[p] :
         IsSyntaxWarning(events[p][i]) =>
           /\ Tokens(events[p][i].a) # <<>>
           /\ Tokens(events[p][i].a)[1] # Str_USER

\* The i-th token of a line, the empty text when the line has fewer.
TokenOr(line, i) ==
  IF Len(Tokens(line)) >= i THEN Tokens(line)[i] ELSE <<>>

\* C21: where a connect is about to be made, and in every connect of the
\* history, the user name and the database name are the second and third
\* token of the block's own header line, empty when the line has none.
C21_ConnectUsesOwnHeader ==
  \A p \in Procs :
    pc[p] \in {"w_182", "w_183"} =>
      /\ loc[p].user_name = TokenOr(HeaderLine(p), 2)
      /\ loc[p].db_name = TokenOr(HeaderLine(p), 3)

\* C22: a step that reads a line inside a block hands the line, as it is, to
\* sql_execute on the block's session, once, unless the line is empty or is
\* exactly "}"; a step that reads an empty line, inside a block or at header
\* position, makes no call and logs no warning.
C22_StatementsVerbatim ==
  [][\A p \in Procs :
       (HasLine(p) /\ loc'[p] # loc[p]) =>
         LET line == script[loc[p].filePos]
             last == events'[p][Len(events'[p])]
         IN /\ (pc[p] \in {"w_174", "w_189"} /\ line = <<>>) =>
                 (events'[p] = events[p] /\ pc'[p] = pc[p])
            /\ (pc[p] = "w_189" /\ line = Str_Close) =>
                 (events'[p] = events[p] /\ pc'[p] = "w_202")
            /\ (pc[p] = "w_189" /\ line # <<>> /\ line # Str_Close) =>
                 /\ Len(events'[p]) = Len(events[p]) + 1
                 /\ SubSeq(events'[p], 1, Len(events[p])) = events[p]
                 /\ last.op = "sql_execute"
                 /\ last.a = line
                 /\ last.sid = loc[p].sessionId]_vars

C22_Witness ==
  \E p \in Procs :
    /\ Returned(p)
    /\ Len(script) = 3 /\ script[2] = <<>>
    /\ \E i \in DOMAIN events[p] :
         /\ events[p][i].op = "sql_execute"
         /\ events[p][i].a = Line_UserB

\* C23: no client connect in the history was processed with the elevation
\* flag read as on.
C23_NoClientConnectWhileElevated ==
  \A p \in Procs :
    \A i \in DOMAIN events[p] :
      IsClientConnect(events[p][i]) => ~events[p][i].su

\* C24: no sql_execute and no disconnect in the history was called with the
\* invalid session id.
C24_NoCallOnInvalidSession ==
  \A p \in Procs :
    \A i \in DOMAIN events[p] :
      events[p][i].op \in {"sql_execute", "disconnect"}
        => events[p][i].sid # InvalidSessionId

====
